---- MODULE Spec2Model ----
(***************************************************************************)
(* Model of src/download_rinex.py: the RINEX batch downloader.             *)
(*                                                                         *)
(* A run of download_rinex_batch expands (station, day) work units, hands  *)
(* them to a thread pool of max_workers workers, and each worker runs      *)
(* download_for_date_station, which walks the candidate file names of the  *)
(* unit and calls download_file (retry loop) for each candidate that is    *)
(* not already on disk.  The remote server, the network and the local      *)
(* disk are the environment: every response status, every transport error  *)
(* and every local I/O error is a nondeterministic choice.                 *)
(*                                                                         *)
(* Several specifications share the actions:                               *)
(*   Spec      the workers and the disk over a run and its re-run, every   *)
(*             unit being already in the executor's queue;                 *)
(*   PoolSpec  one run with the thread of download_rinex_batch: the        *)
(*             submission, the futures, as_completed and results;          *)
(*   LiveSpec  PoolSpec's steps under fairness, one unit hanging;          *)
(*   TermSpec  PoolSpec's steps under fairness, every request returning;   *)
(*   PlanSpec  the expansion into tasks and the candidate lists alone,     *)
(*             over every window of a small calendar;                      *)
(*   MainSpec  the program from its command line on: the checks of         *)
(*             __main__ and the token, then the batch of PoolSpec.         *)
(***************************************************************************)
EXTENDS Integers, Sequences, FiniteSets, TLC

VARIABLES
    stations,      \* the station identifiers given to download_rinex_batch
    start_date,    \* requested range, first day (day number, see YearOf)
    end_date,      \* requested range, last day
    tasks,         \* the (station, date) work units, in submission order
    max_workers,   \* size of the ThreadPoolExecutor
    dry_run,       \* the dry_run flag
    files,         \* the local disk: existing file path |-> 0 (empty) or 1 (not empty)
    dirs,          \* the local disk: existing directories
    unit,          \* per work unit: where its worker is in the code
    station_periods, \* station |-> <<operational start, operational stop>>
    budget,        \* failures the environment may still inject: <<>> = any number
    run,           \* 1 = first invocation of the program, 2 = the re-run
    prev,          \* per work unit: what the previous run reported and left
    main,          \* where the thread that runs download_rinex_batch is
    submitted,     \* number of work units handed to executor.submit so far
    fin,           \* the units whose future is finished
    early,         \* futures finished before as_completed was called, in
                   \* finishing order, not yet yielded
    waiter,        \* futures finished after that, in finishing order, not
                   \* yet yielded
    results,       \* the results list of download_rinex_batch
    summary,       \* <<>> or <<[total, n_success, n_fail]>> once counted
    cands,         \* <<>> or <<the latest call of generate_rinex_url_and_path:
                   \* its arguments and the list it returned>>
    stuck,         \* the unit whose fetches may hang for ever (0 = none)
    env            \* what the program reads from outside: the token variable
                   \* of the environment, the answer of the metadata service
                   \* and the stations file

\* the arguments of the run and what is read from outside: nothing changes
\* them once download_rinex_batch has built its tasks
config == <<stations, start_date, end_date, station_periods, tasks, max_workers,
            dry_run, env>>

\* the thread of download_rinex_batch and the futures it waits for
orch == <<main, submitted, fin, early, waiter, results, summary, cands, stuck>>

vars == <<config, files, dirs, unit, budget, run, prev, orch>>

----------------------------------------------------------------------------
(* Configuration constants of the program *)

MAX_RETRIES == 3

(* Bounds of the model *)

\* number of calendar days the requested range may span
MaxDays == 2
\* most work units of one run
MaxTasks == 2
\* failures the environment injects into a run of several units (a run of a
\* single unit is given any number of them; with the pool and its futures
\* modelled, every run is given MaxFaults of them, and one less when it has
\* three units or more; TermInit and MainInit say what their runs are given)
MaxFaults == 1

----------------------------------------------------------------------------
(* Strings are sequences of characters; str.lower and str.upper *)

LowerChar(ch) ==
    CASE ch = "A" -> "a"
      [] ch = "B" -> "b"
      [] OTHER -> ch

UpperChar(ch) ==
    CASE ch = "a" -> "A"
      [] ch = "b" -> "B"
      [] OTHER -> ch

Lower(s) == [i \in 1..Len(s) |-> LowerChar(s[i])]

Upper(s) == [i \in 1..Len(s) |-> UpperChar(s[i])]

Digit(n) ==
    CASE n = 0 -> "0" [] n = 1 -> "1" [] n = 2 -> "2" [] n = 3 -> "3"
      [] n = 4 -> "4" [] n = 5 -> "5" [] n = 6 -> "6" [] n = 7 -> "7"
      [] n = 8 -> "8" [] n = 9 -> "9"

\* the decimal digits of n, most significant first, no padding
RECURSIVE Decimal(_)
Decimal(n) == IF n < 10 THEN <<Digit(n)>> ELSE Decimal(n \div 10) \o <<Digit(n % 10)>>

\* format(n, "0<w>d"): zero-padded to at least w digits
RECURSIVE ZeroPad(_, _)
ZeroPad(s, w) == IF Len(s) >= w THEN s ELSE ZeroPad(<<"0">> \o s, w)

----------------------------------------------------------------------------
(* Calendar dates are day numbers, day 1 = 2019-01-01 *)

IsLeap(y) == (y % 4 = 0 /\ y % 100 # 0) \/ y % 400 = 0

DaysInYear(y) == IF IsLeap(y) THEN 366 ELSE 365

RECURSIVE YearFrom(_, _)
YearFrom(y, d) == IF d <= DaysInYear(y) THEN y ELSE YearFrom(y + 1, d - DaysInYear(y))

RECURSIVE DoyFrom(_, _)
DoyFrom(y, d) == IF d <= DaysInYear(y) THEN d ELSE DoyFrom(y + 1, d - DaysInYear(y))

\* current_date.year
YearOf(d) == YearFrom(2019, d)

\* current_date.timetuple().tm_yday
DoyOf(d) == DoyFrom(2019, d)

----------------------------------------------------------------------------
(* Candidate generation *)

\* the f-string "<station><DOY>00.<yy>d.Z"
FileName(st, d) ==
    st \o ZeroPad(Decimal(DoyOf(d)), 3) \o <<"0", "0", ".">>
       \o ZeroPad(Decimal(YearOf(d) % 100), 2) \o <<"d", ".", "Z">>

\* the "remove duplicates" loop: first occurrence of each pattern, in order
RECURSIVE Unique(_)
Unique(ps) ==
    IF ps = <<>> THEN <<>>
    ELSE LET front == Unique(SubSeq(ps, 1, Len(ps) - 1))
             p == ps[Len(ps)]
         IN  IF \E i \in 1..Len(front) : front[i] = p THEN front ELSE Append(front, p)

\* the duplicates kept: always the two patterns
BothPatterns(station, current_date) ==
    <<FileName(Lower(station), current_date),
      FileName(Upper(station), current_date)>>

generate_candidate_filenames(station, current_date) ==
    Unique(<<FileName(Lower(station), current_date),
             FileName(Upper(station), current_date)>>)

\* os.path.join(rinex_root, year, doy): the directory below the output root
BaseDir(current_date) ==
    <<Decimal(YearOf(current_date)), ZeroPad(Decimal(DoyOf(current_date)), 3)>>

\* the (url, local_path) candidates of one work unit; the archive prefix of the
\* url and the output root of the path are the same for every candidate
generate_rinex_url_and_path(station, current_date) ==
    LET names == generate_candidate_filenames(station, current_date)
    IN  [i \in 1..Len(names) |->
            [url  |-> <<<<"archive">>>> \o BaseDir(current_date) \o <<names[i]>>,
             path |-> <<<<"out_root">>>> \o BaseDir(current_date) \o <<names[i]>>]]

\* os.path.dirname(path)
DirName(path) == SubSeq(path, 1, Len(path) - 1)

----------------------------------------------------------------------------
(* Expansion of the stations into work units *)

\* an optional date is <<>> (None) or <<d>>
None == <<>>

\* station_periods.get(st, (None, None))
PeriodOf(periods, st) ==
    IF st \in DOMAIN periods THEN periods[st] ELSE <<None, None>>

\* the comparison reversed: the earlier of the two starts
EffStartEarliest(periods, st, start) ==
    LET st_start == PeriodOf(periods, st)[1]
    IN  IF st_start # None /\ st_start[1] < start THEN st_start[1] ELSE start

\* eff_start: the station's start when it is known and later than start_date
EffStart(periods, st, start) ==
    LET st_start == PeriodOf(periods, st)[1]
    IN  IF st_start # None /\ st_start[1] > start THEN st_start[1] ELSE start

\* the station's stop ignored
EffEndIgnoresStop(periods, st, end) ==
    end

\* eff_end: the station's stop when it is known and earlier than end_date
EffEnd(periods, st, end) ==
    LET st_stop == PeriodOf(periods, st)[2]
    IN  IF st_stop # None /\ st_stop[1] < end THEN st_stop[1] ELSE end

\* range((end - start).days): the last day left out
daterangeHalfOpen(start, end) == [n \in 1..(end - start) |-> start + (n - 1)]

\* range((end - start).days + 1), each day as start + timedelta(n)
daterange(start, end) == [n \in 1..(end - start + 1) |-> start + (n - 1)]

\* the tasks list built by the loop over stations
RECURSIVE BuildTasks(_, _, _, _)
BuildTasks(sts, start, end, periods) ==
    IF sts = <<>> THEN <<>>
    ELSE LET st == Head(sts)
             eff_start == EffStart(periods, st, start)
             eff_end == EffEnd(periods, st, end)
             rest == BuildTasks(Tail(sts), start, end, periods)
             days == daterange(eff_start, eff_end)
         IN  IF eff_end < eff_start THEN rest
             ELSE [n \in 1..Len(days) |-> [st |-> st, dt |-> days[n]]] \o rest

----------------------------------------------------------------------------
(* One work unit: download_for_date_station and download_file *)

Units == 1..Len(tasks)

candidates(u) == generate_rinex_url_and_path(tasks[u].st, tasks[u].dt)

\* the candidate the unit's loop is at
Cur(u) == candidates(u)[unit[u].cand]

\* the locals of a download_file call before its first attempt: the attempt
\* number, the requests and sleeps so far, whether every failure so far was a
\* transient one, how the latest attempt ended, and the value returned
FreshCall == [attempt |-> 1, nreq |-> 0, nsleep |-> 0, clean |-> TRUE,
              last |-> "none", ok |-> FALSE]

\* a unit waiting in the executor's queue; reqs counts its requests, wrote is
\* the set of files it opened for writing, hist how each candidate ended,
\* reports the "[DRY RUN] Would try" lines it logged, and (path, success) is
\* the pair download_for_date_station returns
Queued == [pc |-> "queued", cand |-> 1, call |-> FreshCall, reqs |-> 0,
           wrote |-> {}, hist |-> <<>>, reports |-> 0, path |-> <<>>,
           success |-> FALSE]

\* os.path.isfile(local_path)
IsFile(path) == path \in DOMAIN files

\* the size test written >= 0: an empty file counts as downloaded
NonNegative(path) == files[path] >= 0

\* os.path.getsize(local_path) > 0
NonEmpty(path) == files[path] > 0

\* the status codes the archive answers with
StatusCodes == {200, 301, 403, 404, 500, 599, 600}

\* the if/elif/else on resp.status_code
Classify(code) ==
    IF code = 200 THEN "200"
    ELSE IF code = 404 THEN "404"
    ELSE IF 500 <= code /\ code < 600 THEN "5xx"
    ELSE "other"

\* the failures the retry policy is meant for: a 5xx answer, a transport error
\* before the answer (conn) or while the body is streamed (stream)
Transient == {"5xx", "conn", "stream"}

\* off by one: a retry is granted after the last attempt too
MayRetryOnceMore(attempt) == attempt <= MAX_RETRIES

\* if attempt < max_retries
MayRetry(attempt) == attempt < MAX_RETRIES

\* the delay taken before the test on the attempt number: the call sleeps
\* after its last attempt as well
ExceptSleepsFirst(w, kind) ==
    LET c == [w.call EXCEPT !.last = kind, !.clean = @ /\ kind \in Transient]
    IN  IF MayRetry(c.attempt)
        THEN [w EXCEPT !.pc = "sleep", !.call = c]
        ELSE [w EXCEPT !.pc = "ret",
                       !.call = [c EXCEPT !.ok = FALSE, !.nsleep = @ + 1]]

\* the test on the attempt number missing: every failure is followed by a
\* delay and another attempt
ExceptRetriesForever(w, kind) ==
    LET c == [w.call EXCEPT !.last = kind, !.clean = @ /\ kind \in Transient]
    IN  [w EXCEPT !.pc = "sleep", !.call = c]

\* the except clause of download_file, entered with a failure of kind `kind`:
\* the unit as it is after the clause
Except(w, kind) ==
    LET c == [w.call EXCEPT !.last = kind, !.clean = @ /\ kind \in Transient]
    IN  IF MayRetry(c.attempt)
        THEN [w EXCEPT !.pc = "sleep", !.call = c]
        ELSE [w EXCEPT !.pc = "ret", !.call = [c EXCEPT !.ok = FALSE]]

\* the environment may inject one more failure
CanFail == IF budget = <<>> THEN TRUE ELSE budget[1] > 0

Spend == IF budget = <<>> THEN <<>> ELSE <<budget[1] - 1>>

\* the units a worker is busy with: taken from the queue, and
\* download_for_date_station has neither returned (done) nor raised
Running == {u \in Units : unit[u].pc \notin {"queued", "done", "raised"}}

\* the pool without its size: a worker thread for every submitted unit
StartUnbounded(u) ==
    /\ unit[u].pc = "queued"
    /\ u <= submitted
    /\ \A v \in Units : v < u => unit[v].pc # "queued"
    /\ unit' = [unit EXCEPT ![u] =
          IF dry_run
          THEN [@ EXCEPT !.pc = "done", !.path = candidates(u)[1].path,
                         !.success = TRUE, !.reports = Len(candidates(u))]
          ELSE [@ EXCEPT !.pc = "isfile"]]
    /\ UNCHANGED <<config, orch, files, dirs, budget, run, prev>>

\* the dry_run flag ignored: the unit goes on to its candidates
StartIgnoresDryRun(u) ==
    /\ unit[u].pc = "queued"
    /\ u <= submitted
    /\ \A v \in Units : v < u => unit[v].pc # "queued"
    /\ Cardinality(Running) < max_workers
    /\ unit' = [unit EXCEPT ![u] = [@ EXCEPT !.pc = "isfile"]]
    /\ UNCHANGED <<config, orch, files, dirs, budget, run, prev>>

\* a worker takes the next submitted unit of the queue (submission order) and
\* enters download_for_date_station: the dry run reports every candidate and
\* returns
Start(u) ==
    /\ unit[u].pc = "queued"
    /\ u <= submitted
    /\ \A v \in Units : v < u => unit[v].pc # "queued"
    /\ Cardinality(Running) < max_workers
    /\ unit' = [unit EXCEPT ![u] =
          IF dry_run
          THEN [@ EXCEPT !.pc = "done", !.path = candidates(u)[1].path,
                         !.success = TRUE, !.reports = Len(candidates(u))]
          ELSE [@ EXCEPT !.pc = "isfile"]]
    /\ UNCHANGED <<config, orch, files, dirs, budget, run, prev>>

\* os.path.isfile(local_path): a missing file sends the unit to download_file
CheckIsFile(u) ==
    /\ unit[u].pc = "isfile"
    /\ unit' = [unit EXCEPT ![u] =
          IF IsFile(Cur(u).path)
          THEN [@ EXCEPT !.pc = "getsize"]
          ELSE [@ EXCEPT !.pc = "request", !.call = FreshCall]]
    /\ UNCHANGED <<config, orch, files, dirs, budget, run, prev>>

\* os.path.getsize(local_path) > 0: already there, return (local_path, True)
CheckSize(u) ==
    /\ unit[u].pc = "getsize"
    /\ unit' = [unit EXCEPT ![u] =
          IF NonEmpty(Cur(u).path)
          THEN [@ EXCEPT !.pc = "done", !.path = Cur(u).path, !.success = TRUE,
                         !.hist = Append(@, "present")]
          ELSE [@ EXCEPT !.pc = "request", !.call = FreshCall]]
    /\ UNCHANGED <<config, orch, files, dirs, budget, run, prev>>

\* the 404 branch missing: a 404 is handled like a server error
AnsweredRetries404(w, kind) ==
    LET v == [w EXCEPT !.reqs = @ + 1, !.call = [@ EXCEPT !.nreq = @ + 1]]
    IN  IF kind = "200" THEN [v EXCEPT !.pc = "exists"]
        ELSE IF kind \in {"5xx", "404"} THEN Except(v, kind)
        ELSE [v EXCEPT !.pc = "ret",
                       !.call = [@ EXCEPT !.last = kind, !.clean = FALSE, !.ok = FALSE]]

\* the final else missing: every status but 200 and 404 raises HTTPError
AnsweredRetriesOther(w, kind) ==
    LET v == [w EXCEPT !.reqs = @ + 1, !.call = [@ EXCEPT !.nreq = @ + 1]]
    IN  IF kind = "200" THEN [v EXCEPT !.pc = "exists"]
        ELSE IF kind \in {"5xx", "other"} THEN Except(v, kind)
        ELSE [v EXCEPT !.pc = "ret",
                       !.call = [@ EXCEPT !.last = kind, !.clean = FALSE, !.ok = FALSE]]

\* the unit after requests.get has answered with a status of class `kind`
Answered(w, kind) ==
    LET v == [w EXCEPT !.reqs = @ + 1, !.call = [@ EXCEPT !.nreq = @ + 1]]
    IN  IF kind = "200" THEN [v EXCEPT !.pc = "exists"]
        ELSE IF kind = "5xx" THEN Except(v, kind)
        ELSE [v EXCEPT !.pc = "ret",
                       !.call = [@ EXCEPT !.last = kind, !.clean = FALSE, !.ok = FALSE]]

\* ensure_directory called before the status is looked at
RespondCreatesFirst(u, code) ==
    /\ unit[u].pc = "request"
    /\ code # 200 => CanFail
    /\ budget' = IF code # 200 THEN Spend ELSE budget
    /\ dirs' = dirs \cup {SubSeq(DirName(Cur(u).path), 1, k) :
                             k \in 1..Len(DirName(Cur(u).path))}
    /\ unit' = [unit EXCEPT ![u] = Answered(unit[u], Classify(code))]
    /\ UNCHANGED <<config, orch, files, run, prev>>

\* requests.get answers with a status code
Respond(u, code) ==
    /\ unit[u].pc = "request"
    /\ code # 200 => CanFail
    /\ budget' = IF code # 200 THEN Spend ELSE budget
    /\ unit' = [unit EXCEPT ![u] = Answered(unit[u], Classify(code))]
    /\ UNCHANGED <<config, orch, files, dirs, run, prev>>

\* requests.get raises (timeout, connection reset, DNS failure)
RequestFails(u) ==
    /\ unit[u].pc = "request"
    /\ CanFail
    /\ budget' = Spend
    /\ unit' = [unit EXCEPT ![u] =
          Except([@ EXCEPT !.reqs = @ + 1, !.call = [@ EXCEPT !.nreq = @ + 1]], "conn")]
    /\ UNCHANGED <<config, orch, files, dirs, run, prev>>

\* time.sleep(RETRY_BACKOFF_SEC), then the next attempt of the for loop
Sleep(u) ==
    /\ unit[u].pc = "sleep"
    /\ unit' = [unit EXCEPT ![u] =
          [@ EXCEPT !.pc = "request",
                    !.call = [@ EXCEPT !.nsleep = @ + 1, !.attempt = @ + 1,
                                       !.last = "none"]]]
    /\ UNCHANGED <<config, orch, files, dirs, budget, run, prev>>

\* the directories os.makedirs(dirpath, exist_ok=True) leaves behind
WithParents(dirpath) == {SubSeq(dirpath, 1, k) : k \in 1..Len(dirpath)}

\* ensure_directory: os.path.exists(dirpath)
DirExists(u) ==
    /\ unit[u].pc = "exists"
    /\ unit' = [unit EXCEPT ![u] =
          [@ EXCEPT !.pc = IF DirName(Cur(u).path) \in dirs THEN "open" ELSE "makedirs"]]
    /\ UNCHANGED <<config, orch, files, dirs, budget, run, prev>>

\* os.makedirs(dirpath) without exist_ok: FileExistsError when another worker
\* created the directory after the os.path.exists test
MakeDirsExclusive(u) ==
    /\ unit[u].pc = "makedirs"
    /\ IF DirName(Cur(u).path) \in dirs
       THEN /\ unit' = [unit EXCEPT ![u] = Except(@, "local")]
            /\ dirs' = dirs
       ELSE /\ dirs' = dirs \cup WithParents(DirName(Cur(u).path))
            /\ unit' = [unit EXCEPT ![u] = [@ EXCEPT !.pc = "open"]]
    /\ UNCHANGED <<config, orch, files, budget, run, prev>>

\* ensure_directory: os.makedirs(dirpath, exist_ok=True) succeeds, also when
\* another worker created the directory in the meantime
MakeDirs(u) ==
    /\ unit[u].pc = "makedirs"
    /\ dirs' = dirs \cup WithParents(DirName(Cur(u).path))
    /\ unit' = [unit EXCEPT ![u] = [@ EXCEPT !.pc = "open"]]
    /\ UNCHANGED <<config, orch, files, budget, run, prev>>

\* ensure_directory: os.makedirs raises (permissions, disk) and the exception
\* is re-raised into the except clause of download_file
MakeDirsFails(u) ==
    /\ unit[u].pc = "makedirs"
    /\ CanFail
    /\ budget' = Spend
    /\ unit' = [unit EXCEPT ![u] = Except(@, "local")]
    /\ UNCHANGED <<config, orch, files, dirs, run, prev>>

\* open(local_path, "wb"): creates the file or truncates it
Open(u) ==
    /\ unit[u].pc = "open"
    /\ files' = [p \in DOMAIN files \cup {Cur(u).path} |->
                   IF p = Cur(u).path THEN 0 ELSE files[p]]
    /\ unit' = [unit EXCEPT ![u] =
          [@ EXCEPT !.pc = "write", !.wrote = @ \cup {Cur(u).path}]]
    /\ UNCHANGED <<config, orch, dirs, budget, run, prev>>

\* open(local_path, "wb") raises
OpenFails(u) ==
    /\ unit[u].pc = "open"
    /\ CanFail
    /\ budget' = Spend
    /\ unit' = [unit EXCEPT ![u] = Except(@, "local")]
    /\ UNCHANGED <<config, orch, files, dirs, run, prev>>

\* a non-empty chunk of iter_content is written: whatever the handle's offset
\* and whoever truncated the file meanwhile, the file is not empty afterwards
WriteChunk(u) ==
    /\ unit[u].pc = "write"
    /\ files' = [files EXCEPT ![Cur(u).path] = 1]
    /\ UNCHANGED <<config, orch, dirs, unit, budget, run, prev>>

\* f.write raises (disk full)
WriteFails(u) ==
    /\ unit[u].pc = "write"
    /\ CanFail
    /\ budget' = Spend
    /\ unit' = [unit EXCEPT ![u] = Except(@, "local")]
    /\ UNCHANGED <<config, orch, files, dirs, run, prev>>

\* iter_content raises while the body is streamed (connection lost)
StreamFails(u) ==
    /\ unit[u].pc = "write"
    /\ CanFail
    /\ budget' = Spend
    /\ unit' = [unit EXCEPT ![u] = Except(@, "stream")]
    /\ UNCHANGED <<config, orch, files, dirs, run, prev>>

\* iter_content is exhausted: the file is closed and download_file returns True
StreamEnds(u) ==
    /\ unit[u].pc = "write"
    /\ unit' = [unit EXCEPT ![u] =
          [@ EXCEPT !.pc = "ret",
                    !.call = [@ EXCEPT !.last = "ok", !.ok = TRUE]]]
    /\ UNCHANGED <<config, orch, files, dirs, budget, run, prev>>

\* the path download_for_date_station reports when no candidate succeeded
NominalPath(u) == candidates(u)[1].path

\* the "if success: return" missing: the loop goes on to the next candidate
ReturnKeepsGoing(u) ==
    /\ unit[u].pc = "ret"
    /\ unit' = [unit EXCEPT ![u] =
          IF unit[u].cand < Len(candidates(u))
          THEN [@ EXCEPT !.pc = "isfile", !.cand = @ + 1,
                         !.hist = Append(@, unit[u].call.last), !.call = FreshCall]
          ELSE [@ EXCEPT !.pc = "done", !.path = NominalPath(u),
                         !.success = unit[u].call.ok,
                         !.hist = Append(@, unit[u].call.last), !.call = FreshCall]]
    /\ UNCHANGED <<config, orch, files, dirs, budget, run, prev>>

\* a return in place of the loop's next turn: the first candidate that fails
\* ends the unit
ReturnGivesUp(u) ==
    /\ unit[u].pc = "ret"
    /\ unit' = [unit EXCEPT ![u] =
          IF unit[u].call.ok
          THEN [@ EXCEPT !.pc = "done", !.path = Cur(u).path, !.success = TRUE,
                         !.hist = Append(@, unit[u].call.last), !.call = FreshCall]
          ELSE [@ EXCEPT !.pc = "done", !.path = NominalPath(u), !.success = FALSE,
                         !.hist = Append(@, unit[u].call.last), !.call = FreshCall]]
    /\ UNCHANGED <<config, orch, files, dirs, budget, run, prev>>

\* download_file has returned into the loop of download_for_date_station
Return(u) ==
    /\ unit[u].pc = "ret"
    /\ unit' = [unit EXCEPT ![u] =
          IF unit[u].call.ok
          THEN [@ EXCEPT !.pc = "done", !.path = Cur(u).path, !.success = TRUE,
                         !.hist = Append(@, unit[u].call.last), !.call = FreshCall]
          ELSE IF unit[u].cand < Len(candidates(u))
          THEN [@ EXCEPT !.pc = "isfile", !.cand = @ + 1,
                         !.hist = Append(@, unit[u].call.last), !.call = FreshCall]
          ELSE [@ EXCEPT !.pc = "done", !.path = NominalPath(u), !.success = FALSE,
                         !.hist = Append(@, unit[u].call.last), !.call = FreshCall]]
    /\ UNCHANGED <<config, orch, files, dirs, budget, run, prev>>

----------------------------------------------------------------------------
(* The thread pool and the aggregation of download_rinex_batch *)

\* os.path.getsize(local_path) raises OSError (the file went away or became
\* unreadable after isfile): nothing in download_for_date_station catches
\* it, so the exception leaves the function and is stored in the future
GetSizeRaises(u) ==
    /\ unit[u].pc = "getsize"
    /\ CanFail
    /\ budget' = Spend
    /\ unit' = [unit EXCEPT ![u] = [@ EXCEPT !.pc = "raised"]]
    /\ UNCHANGED <<config, orch, files, dirs, run, prev>>

\* the units that hold a worker thread: the thread runs the unit and then
\* completes its future before it takes another one
Busy == Running \cup {u \in Units : unit[u].pc \in {"done", "raised"} /\ u \notin fin}

\* a free worker thread takes the next unit of the queue
Take(u) ==
    /\ Cardinality(Busy) < max_workers
    /\ Start(u)

\* submit returns only once every unit submitted before has finished
SubmitWaits ==
    /\ main = "submit"
    /\ submitted < Len(tasks)
    /\ \A v \in 1..submitted : v \in fin
    /\ submitted' = submitted + 1
    /\ UNCHANGED <<config, files, dirs, unit, budget, run, prev,
                   main, fin, early, waiter, results, summary, cands, stuck>>

\* executor.submit in the dict comprehension: the next task is put on the
\* queue; the call waits for no worker
Submit ==
    /\ main = "submit"
    /\ submitted < Len(tasks)
    /\ submitted' = submitted + 1
    /\ UNCHANGED <<config, files, dirs, unit, budget, run, prev,
                   main, fin, early, waiter, results, summary, cands, stuck>>

\* the worker stores the result or the exception in the future
\* (set_result, set_exception): the future is finished, and a waiter that
\* as_completed has installed is told so
Finish(u) ==
    /\ unit[u].pc \in {"done", "raised"}
    /\ u \notin fin
    /\ fin' = fin \cup {u}
    /\ early' = IF main = "submit" THEN Append(early, u) ELSE early
    /\ waiter' = IF main = "submit" THEN waiter ELSE Append(waiter, u)
    /\ UNCHANGED <<config, files, dirs, unit, budget, run, prev,
                   main, submitted, results, summary, cands, stuck>>

\* as_completed(future_to_task) is called once every task is submitted: the
\* futures finished by then are collected in a set, and a waiter is
\* installed on the others
AsCompleted ==
    /\ main = "submit"
    /\ submitted = Len(tasks)
    /\ main' = "collect"
    /\ UNCHANGED <<config, files, dirs, unit, budget, run, prev,
                   submitted, fin, early, waiter, results, summary, cands, stuck>>

\* the tuple appended to results for the future of unit u: future.result()
\* returns the pair of download_for_date_station or raises what it raised;
\* u itself stands for future_to_task[future]
Outcome(u) ==
    IF unit[u].pc = "raised"
    THEN [u |-> u, st |-> tasks[u].st, dt |-> tasks[u].dt,
          path |-> None, success |-> FALSE]
    ELSE [u |-> u, st |-> tasks[u].st, dt |-> tasks[u].dt,
          path |-> unit[u].path, success |-> unit[u].success]

\* s without its element u
Without(s, u) == SelectSeq(s, LAMBDA x : x # u)

\* the futures as_completed may yield next: any of the set found finished at
\* the call (a set is iterated in no particular order), and after them the
\* others in the order they finished
Yields(u) ==
    IF early # <<>> THEN \E i \in 1..Len(early) : early[i] = u
    ELSE IF waiter # <<>> THEN u = Head(waiter) ELSE FALSE

\* without the try/except around future.result(): the exception of a unit
\* leaves download_rinex_batch
CollectPropagates(u) ==
    /\ main = "collect"
    /\ Yields(u)
    /\ early' = Without(early, u)
    /\ waiter' = IF early # <<>> THEN waiter ELSE Tail(waiter)
    /\ results' = IF unit[u].pc = "raised" THEN results
                  ELSE Append(results, Outcome(u))
    /\ main' = IF unit[u].pc = "raised" THEN "aborted" ELSE main
    /\ UNCHANGED <<config, files, dirs, unit, budget, run, prev,
                   submitted, fin, summary, cands, stuck>>

\* only the successful units are appended to results
CollectSuccessOnly(u) ==
    /\ main = "collect"
    /\ Yields(u)
    /\ early' = Without(early, u)
    /\ waiter' = IF early # <<>> THEN waiter ELSE Tail(waiter)
    /\ results' = IF Outcome(u).success THEN Append(results, Outcome(u))
                  ELSE results
    /\ UNCHANGED <<config, files, dirs, unit, budget, run, prev,
                   main, submitted, fin, summary, cands, stuck>>

\* one turn of the loop over as_completed: the outcome of the yielded future
\* is appended to results, (st, dt, None, False) when the unit raised
Collect(u) ==
    /\ main = "collect"
    /\ Yields(u)
    /\ early' = Without(early, u)
    /\ waiter' = IF early # <<>> THEN waiter ELSE Tail(waiter)
    /\ results' = Append(results, Outcome(u))
    /\ UNCHANGED <<config, files, dirs, unit, budget, run, prev,
                   main, submitted, fin, summary, cands, stuck>>

\* sum(1 for r in results if r[3])
CountSuccess(rs) == Cardinality({i \in 1..Len(rs) : rs[i].success})

\* as_completed has yielded every future: the executor is shut down, the
\* successes are counted and results is returned
BatchReturn ==
    /\ main = "collect"
    /\ fin = Units
    /\ early = <<>>
    /\ waiter = <<>>
    /\ main' = "returned"
    /\ summary' = <<[total     |-> Len(tasks),
                     n_success |-> CountSuccess(results),
                     n_fail    |-> Len(tasks) - CountSuccess(results)]>>
    /\ UNCHANGED <<config, files, dirs, unit, budget, run, prev,
                   submitted, fin, early, waiter, results, cands, stuck>>

----------------------------------------------------------------------------
(* What __main__ reads from outside *)

\* no --stations-file on the command line
NoFile == [given |-> FALSE, isfile |-> FALSE, ids |-> <<>>]

\* download_rinex_batch called with its arguments, the token being set:
\* nothing else is read
CalledDirectly == [token |-> TRUE, meta_ok |-> TRUE, metadata |-> <<>>, file |-> NoFile]

----------------------------------------------------------------------------
(* The runs *)

StationIds == {<<"a", "b">>, <<"A", "B">>, <<"1">>}

\* lists of distinct station identifiers (the keys of the metadata dict): one
\* station with two candidates, one with a single candidate, two that differ
\* by case only, and two that share nothing
StationLists ==
    {l \in {<<<<"a", "b">>>>, <<<<"1">>>>,
            <<<<"a", "b">>, <<"A", "B">>>>, <<<<"1">>, <<"a", "b">>>>} :
        \A i \in 1..Len(l) : l[i] \in StationIds}

\* 2019-12-31
FirstDay == 365

\* 2019-12-31 and the days after it
Dates == FirstDay..(FirstDay + MaxDays - 1)

Init ==
    /\ stations \in StationLists
    /\ start_date = FirstDay
    /\ end_date \in Dates
    /\ station_periods = [s \in {} |-> <<None, None>>]
    /\ tasks = BuildTasks(stations, start_date, end_date, station_periods)
    /\ Len(tasks) >= 1
    /\ Len(tasks) <= MaxTasks
    /\ max_workers \in 1..Len(tasks)
    /\ dry_run \in BOOLEAN
    /\ budget = IF Len(tasks) = 1 THEN <<>> ELSE <<MaxFaults>>
    /\ files = [p \in {} |-> 0]
    /\ dirs = {}
    /\ unit = [u \in 1..Len(tasks) |-> Queued]
    /\ run = 1
    /\ prev = [u \in 1..Len(tasks) |-> [success |-> FALSE, nonempty |-> FALSE]]
    /\ main = "submit"
    /\ submitted = Len(tasks)
    /\ fin = {}
    /\ early = <<>>
    /\ waiter = <<>>
    /\ results = <<>>
    /\ summary = <<>>
    /\ cands = <<>>
    /\ stuck = 0
    /\ env = CalledDirectly

\* the batch is over and the same command is run again on the same out_root
Rerun ==
    /\ run = 1
    /\ \A u \in Units : unit[u].pc = "done"
    /\ run' = 2
    /\ prev' = [u \in Units |->
                  [success  |-> unit[u].success,
                   nonempty |-> IF IsFile(unit[u].path) THEN NonEmpty(unit[u].path)
                                ELSE FALSE]]
    /\ unit' = [u \in Units |-> Queued]
    /\ UNCHANGED <<config, orch, files, dirs, budget>>

Next ==
    \/ \E u \in Units : Start(u)
    \/ \E u \in Units : CheckIsFile(u)
    \/ \E u \in Units : CheckSize(u)
    \/ \E u \in Units, code \in StatusCodes : Respond(u, code)
    \/ \E u \in Units : RequestFails(u)
    \/ \E u \in Units : Sleep(u)
    \/ \E u \in Units : DirExists(u)
    \/ \E u \in Units : MakeDirs(u)
    \/ \E u \in Units : MakeDirsFails(u)
    \/ \E u \in Units : Open(u)
    \/ \E u \in Units : OpenFails(u)
    \/ \E u \in Units : WriteChunk(u)
    \/ \E u \in Units : WriteFails(u)
    \/ \E u \in Units : StreamFails(u)
    \/ \E u \in Units : StreamEnds(u)
    \/ \E u \in Units : Return(u)
    \/ Rerun

Spec == Init /\ [][Next]_vars

----------------------------------------------------------------------------
(* The batch with its pool: submission, workers, futures, aggregation *)

\* the windows of the metadata, which has records of listed stations only:
\* none known, station ab closed on 2019-12-30, the day before the requested
\* range starts, or station ab opened after the last day a requested range
\* can end
PoolPeriods ==
    {[s \in {} |-> <<None, None>>],
     [s \in {<<"a", "b">>} |-> <<None, <<FirstDay - 1>>>>],
     [s \in {<<"a", "b">>} |-> <<<<FirstDay + MaxDays>>, None>>]}

\* everything but the choice of the unit that may hang
PoolSetup ==
    /\ stations \in StationLists
    /\ start_date = FirstDay
    /\ end_date \in Dates
    /\ station_periods \in PoolPeriods
    /\ DOMAIN station_periods \subseteq {stations[k] : k \in 1..Len(stations)}
    /\ tasks = BuildTasks(stations, start_date, end_date, station_periods)
    /\ Len(tasks) <= MaxTasks
    /\ max_workers \in 1..(IF tasks = <<>> THEN 1 ELSE Len(tasks))
    /\ dry_run \in BOOLEAN
    /\ budget = IF Len(tasks) <= 2 THEN <<MaxFaults>> ELSE <<MaxFaults - 1>>
    /\ \E have \in SUBSET (IF tasks = <<>> THEN {}
                           ELSE {generate_rinex_url_and_path(
                                     tasks[1].st, tasks[1].dt)[1].path}) :
          /\ files = [p \in have |-> 1]
          /\ dirs = UNION {WithParents(DirName(p)) : p \in have}
    /\ unit = [u \in 1..Len(tasks) |-> Queued]
    /\ run = 1
    /\ prev = [u \in 1..Len(tasks) |-> [success |-> FALSE, nonempty |-> FALSE]]
    /\ main = "submit"
    /\ submitted = 0
    /\ fin = {}
    /\ early = <<>>
    /\ waiter = <<>>
    /\ results = <<>>
    /\ summary = <<>>
    /\ cands = <<>>
    /\ env = CalledDirectly

PoolInit ==
    /\ PoolSetup
    /\ stuck = 0

PoolNext ==
    \/ Submit
    \/ \E u \in Units : Take(u)
    \/ \E u \in Units : CheckIsFile(u)
    \/ \E u \in Units : CheckSize(u)
    \/ \E u \in Units : GetSizeRaises(u)
    \/ \E u \in Units, code \in StatusCodes : Respond(u, code)
    \/ \E u \in Units : RequestFails(u)
    \/ \E u \in Units : Sleep(u)
    \/ \E u \in Units : DirExists(u)
    \/ \E u \in Units : MakeDirs(u)
    \/ \E u \in Units : MakeDirsFails(u)
    \/ \E u \in Units : Open(u)
    \/ \E u \in Units : OpenFails(u)
    \/ \E u \in Units : WriteChunk(u)
    \/ \E u \in Units : WriteFails(u)
    \/ \E u \in Units : StreamFails(u)
    \/ \E u \in Units : StreamEnds(u)
    \/ \E u \in Units : Return(u)
    \/ \E u \in Units : Finish(u)
    \/ AsCompleted
    \/ \E u \in Units : Collect(u)
    \/ BatchReturn

PoolSpec == PoolInit /\ [][PoolNext]_vars

\* the batches in which the unit at the head of the queue can hang while
\* another worker is there: not a dry run, two workers, and unit 1 the one
\* whose request may never be answered and whose retry delay may never end;
\* no window is known and the disk is empty
LiveInit ==
    /\ PoolSetup
    /\ ~dry_run
    /\ DOMAIN station_periods = {}
    /\ DOMAIN files = {}
    /\ max_workers = 2
    /\ stuck = 1

\* the steps that end a fetch or a retry delay of unit u
EndsWait(u) ==
    \/ \E code \in StatusCodes : Respond(u, code)
    \/ RequestFails(u)
    \/ Sleep(u)

\* the steps of the thread that runs download_rinex_batch
Orchestrates ==
    \/ Submit
    \/ AsCompleted
    \/ \E u \in Units : Collect(u)
    \/ BatchReturn

\* the steps of the worker threads around a unit: taking it, storing its
\* outcome in the future, and the end of a fetch or of a retry delay of any
\* unit but the one that hangs
Serves ==
    \E u \in Units :
        \/ Take(u)
        \/ Finish(u)
        \/ u # stuck /\ EndsWait(u)

\* the steps of download_for_date_station and download_file that wait for
\* nothing but the local disk
LocalStep(u) ==
    \/ CheckIsFile(u)
    \/ CheckSize(u)
    \/ DirExists(u)
    \/ MakeDirs(u)
    \/ Open(u)
    \/ WriteChunk(u)
    \/ StreamEnds(u)
    \/ Return(u)

\* the positions of a unit at which a LocalStep that changes the state is
\* possible, whatever the rest of the state is
AtLocalStep(u) ==
    unit[u].pc \in {"isfile", "getsize", "exists", "makedirs", "open", "write", "ret"}

\* threads are scheduled by the operating system: the thread of
\* download_rinex_batch goes on while it can, a worker that can take a unit,
\* finish a future or end a wait does so, and a unit at a local step takes
\* it; only the fetch and the retry delay of the unit `stuck` may last for
\* ever.  The third conjunct is weak fairness of \E u : LocalStep(u), its
\* ENABLED written as the state predicate \E u : AtLocalStep(u)
Fairness ==
    /\ WF_vars(Orchestrates)
    /\ WF_vars(Serves)
    /\ \/ []<>(~(\E u \in Units : AtLocalStep(u)))
       \/ []<><<\E u \in Units : LocalStep(u)>>_vars

LiveSpec == LiveInit /\ [][PoolNext]_vars /\ Fairness

\* the batches in which every request returns or raises: no unit hangs, no
\* window is known and the disk is empty; the environment fails a batch of
\* one unit as often as it likes, a batch of two units MaxFaults times, and
\* a larger batch never
TermInit ==
    /\ stations \in StationLists
    /\ start_date = FirstDay
    /\ end_date \in Dates
    /\ station_periods = [s \in {} |-> <<None, None>>]
    /\ tasks = BuildTasks(stations, start_date, end_date, station_periods)
    /\ Len(tasks) >= 1
    /\ Len(tasks) <= MaxTasks
    /\ max_workers \in 1..Len(tasks)
    /\ dry_run \in BOOLEAN
    /\ budget = IF Len(tasks) = 1 THEN <<>>
                ELSE IF Len(tasks) = 2 THEN <<MaxFaults>> ELSE <<0>>
    /\ files = [p \in {} |-> 0]
    /\ dirs = {}
    /\ unit = [u \in 1..Len(tasks) |-> Queued]
    /\ run = 1
    /\ prev = [u \in 1..Len(tasks) |-> [success |-> FALSE, nonempty |-> FALSE]]
    /\ main = "submit"
    /\ submitted = 0
    /\ fin = {}
    /\ early = <<>>
    /\ waiter = <<>>
    /\ results = <<>>
    /\ summary = <<>>
    /\ cands = <<>>
    /\ stuck = 0
    /\ env = CalledDirectly

TermSpec == TermInit /\ [][PoolNext]_vars /\ Fairness

----------------------------------------------------------------------------
(* The planning alone: the expansion into tasks and the candidates of a task *)

\* station lists for the planning: identifiers in lower, upper and mixed
\* case and one without letters
PlanStationLists ==
    {<<<<"a", "b">>>>, <<<<"1">>>>, <<<<"a", "B">>>>,
     <<<<"a", "b">>, <<"A", "B">>>>, <<<<"1">>, <<"a", "b">>>>}

\* 2019-12-31 and the days after it, two more than a batch run may span
PlanDates == FirstDay..(FirstDay + MaxDays + 1)

\* session_start_time, session_stop_time as parse_session_periods leaves
\* them: None or a date
WindowBounds == {None} \cup {<<d>> : d \in PlanDates}

\* the station_periods dicts: some of the stations as keys
PlanPeriods(sts) ==
    UNION {[S -> WindowBounds \X WindowBounds] :
              S \in SUBSET {sts[k] : k \in 1..Len(sts)}}

PlanInit ==
    /\ stations \in PlanStationLists
    /\ start_date \in PlanDates
    /\ end_date \in PlanDates
    /\ start_date <= end_date
    /\ station_periods \in PlanPeriods(stations)
    /\ tasks = <<>>
    /\ max_workers = 1
    /\ dry_run = FALSE
    /\ budget = <<>>
    /\ files = [p \in {} |-> 0]
    /\ dirs = {}
    /\ unit = <<>>
    /\ run = 1
    /\ prev = <<>>
    /\ main = "plan"
    /\ submitted = 0
    /\ fin = {}
    /\ early = <<>>
    /\ waiter = <<>>
    /\ results = <<>>
    /\ summary = <<>>
    /\ cands = <<>>
    /\ stuck = 0
    /\ env = CalledDirectly

\* the loop over stations at the head of download_rinex_batch
Plan ==
    /\ main = "plan"
    /\ tasks' = BuildTasks(stations, start_date, end_date, station_periods)
    /\ main' = "planned"
    /\ UNCHANGED <<stations, start_date, end_date, station_periods, max_workers,
                   dry_run, env, files, dirs, unit, budget, run, prev,
                   submitted, fin, early, waiter, results, summary, cands, stuck>>

\* generate_rinex_url_and_path is called for the task (st, dt)
Candidates(st, dt) ==
    /\ main = "planned"
    /\ cands' = <<[station |-> st, current_date |-> dt,
                   ret |-> generate_rinex_url_and_path(st, dt)]>>
    /\ UNCHANGED <<config, files, dirs, unit, budget, run, prev,
                   main, submitted, fin, early, waiter, results, summary, stuck>>

PlanNext ==
    \/ Plan
    \/ \E i \in 1..Len(tasks) : Candidates(tasks[i].st, tasks[i].dt)

PlanSpec == PlanInit /\ [][PlanNext]_vars

----------------------------------------------------------------------------
(* The program from its command line on: __main__, then the batch *)

\* a row of the metadata answer: the station and its session times, absent
\* or unreadable times being None
Row(st) == [id |-> st, session_start_time |-> None, session_stop_time |-> None]

\* the answers of the metadata service that are lists of rows: no row, or
\* the rows of one of the station lists
MetaAnswers ==
    {<<>>} \cup {[k \in 1..Len(l) |-> Row(l[k])] : l \in StationLists}

\* --stations-file: not given, given and missing, given with no station,
\* with station 1 or with station ab
StationFiles ==
    {NoFile, [given |-> TRUE, isfile |-> FALSE, ids |-> <<>>]}
        \cup {[given |-> TRUE, isfile |-> TRUE, ids |-> l] :
                  l \in {<<>>, <<<<"1">>>>, <<<<"a", "b">>>>}}

\* parse_session_periods: a dict entry per row, a later row of the same id
\* replacing an earlier one
parse_session_periods(df_metadata) ==
    [sid \in {df_metadata[i].id : i \in 1..Len(df_metadata)} |->
        LET last == CHOOSE i \in 1..Len(df_metadata) :
                        /\ df_metadata[i].id = sid
                        /\ \A j \in 1..Len(df_metadata) :
                              df_metadata[j].id = sid => j <= i
        IN  <<df_metadata[last].session_start_time,
              df_metadata[last].session_stop_time>>]

\* list(station_periods.keys()): the ids in the order the dict got them
Keys(df_metadata) ==
    Unique([i \in 1..Len(df_metadata) |-> df_metadata[i].id])

\* [st for st in stations_requested if st in station_periods]
Filtered(stations_requested, periods) ==
    SelectSeq(stations_requested, LAMBDA st : st \in DOMAIN periods)

\* the tasks a run would build from what it reads, were it to get that far
Planned(e, start, end) ==
    LET periods == parse_session_periods(e.metadata)
        sts == IF e.file.given THEN Filtered(e.file.ids, periods)
               ELSE Keys(e.metadata)
    IN  BuildTasks(sts, start, end, periods)

\* the command lines and the outside world of a run: any two dates of the
\* calendar, the token set or not, the metadata query failing or answering,
\* a stations file or none; the disk is empty.  The runs kept are those
\* whose batch would have MaxTasks units at most; the environment fails a
\* batch of one or two units MaxFaults times and a larger one never
MainInit ==
    /\ start_date \in Dates
    /\ end_date \in Dates
    /\ max_workers \in 1..MaxTasks
    /\ dry_run \in BOOLEAN
    /\ env \in [token : BOOLEAN, meta_ok : BOOLEAN, metadata : MetaAnswers,
                 file : StationFiles]
    /\ ~env.meta_ok => env.metadata = <<>>
    /\ Len(Planned(env, start_date, end_date)) <= MaxTasks
    /\ budget = IF Len(Planned(env, start_date, end_date)) <= 2
                THEN <<MaxFaults>> ELSE <<0>>
    /\ stations = <<>>
    /\ station_periods = [s \in {} |-> <<None, None>>]
    /\ tasks = <<>>
    /\ files = [p \in {} |-> 0]
    /\ dirs = {}
    /\ unit = <<>>
    /\ run = 1
    /\ prev = <<>>
    /\ main = "main"
    /\ submitted = 0
    /\ fin = {}
    /\ early = <<>>
    /\ waiter = <<>>
    /\ results = <<>>
    /\ summary = <<>>
    /\ cands = <<>>
    /\ stuck = 0

\* the dates of the command line: sys.exit(1) when the end date is before
\* the start date
ParseArgs ==
    /\ main = "main"
    /\ main' = IF end_date < start_date THEN "exit" ELSE "query"
    /\ UNCHANGED <<config, files, dirs, unit, budget, run, prev,
                   submitted, fin, early, waiter, results, summary, cands, stuck>>

\* query_metadata_bbox and parse_session_periods: sys.exit(1) when the query
\* fails or answers with no row
QueryMetadata ==
    /\ main = "query"
    /\ IF ~env.meta_ok \/ env.metadata = <<>>
       THEN /\ main' = "exit"
            /\ station_periods' = station_periods
       ELSE /\ main' = "select"
            /\ station_periods' = parse_session_periods(env.metadata)
    /\ UNCHANGED <<stations, start_date, end_date, tasks, max_workers, dry_run,
                   env, files, dirs, unit, budget, run, prev,
                   submitted, fin, early, waiter, results, summary, cands, stuck>>

\* the station list: the stations of the file that the metadata knows, or
\* every station of the metadata; sys.exit(1) when the file is missing, has
\* no station, or none of its stations is known
DetermineStations ==
    /\ main = "select"
    /\ IF env.file.given
       THEN IF ~env.file.isfile \/ env.file.ids = <<>>
            THEN /\ main' = "exit"
                 /\ stations' = stations
            ELSE /\ stations' = Filtered(env.file.ids, station_periods)
                 /\ main' = IF stations' = <<>> THEN "exit" ELSE "batch"
       ELSE /\ stations' = Keys(env.metadata)
            /\ main' = "batch"
    /\ UNCHANGED <<start_date, end_date, station_periods, tasks, max_workers,
                   dry_run, env, files, dirs, unit, budget, run, prev,
                   submitted, fin, early, waiter, results, summary, cands, stuck>>

\* the token taken whether it is set or not
GetBearerTokenUnchecked ==
    /\ main = "batch"
    /\ main' = "tasks"
    /\ UNCHANGED <<config, files, dirs, unit, budget, run, prev,
                   submitted, fin, early, waiter, results, summary, cands, stuck>>

\* download_rinex_batch is called and calls get_bearer_token first: the
\* RuntimeError of an unset (or empty) variable is caught nowhere and ends
\* the program
GetBearerToken ==
    /\ main = "batch"
    /\ main' = IF env.token THEN "tasks" ELSE "error"
    /\ UNCHANGED <<config, files, dirs, unit, budget, run, prev,
                   submitted, fin, early, waiter, results, summary, cands, stuck>>

\* the loop over stations builds tasks; results is empty and the executor is
\* created, its queue empty
BuildTaskList ==
    /\ main = "tasks"
    /\ tasks' = BuildTasks(stations, start_date, end_date, station_periods)
    /\ unit' = [u \in 1..Len(tasks') |-> Queued]
    /\ prev' = [u \in 1..Len(tasks') |-> [success |-> FALSE, nonempty |-> FALSE]]
    /\ main' = "submit"
    /\ UNCHANGED <<stations, start_date, end_date, station_periods, max_workers,
                   dry_run, env, files, dirs, budget, run,
                   submitted, fin, early, waiter, results, summary, cands, stuck>>

MainNext ==
    \/ ParseArgs
    \/ QueryMetadata
    \/ DetermineStations
    \/ GetBearerToken
    \/ BuildTaskList
    \/ PoolNext

MainSpec == MainInit /\ [][MainNext]_vars

----------------------------------------------------------------------------
(* Properties *)

Done(u) == unit[u].pc = "done"

\* the latest download_file call of u has so far only failed, each time with a
\* transient failure, the latest attempt included
AllTransient(u) == unit[u].call.clean /\ unit[u].call.last \in Transient

\* C1: in the re-run (same stations, range and out_root, not a dry run) a unit
\* that the first run reported successful makes no request at all, whichever
\* candidate satisfied it; stated for the units whose reported file the first
\* run left non-empty on disk
C1_SecondRunFetchesNothing ==
    \A u \in Units :
        (run = 2 /\ ~dry_run /\ prev[u].success /\ prev[u].nonempty) => unit[u].reqs = 0

\* C2: a download_file call never issues more than MAX_RETRIES requests; after an
\* attempt that failed transiently, as all before it, the call is either
\* waiting to retry with fewer than MAX_RETRIES requests made, or it returns False
\* after exactly MAX_RETRIES requests; and the unit is at a later candidate
\* only when the calls for all earlier candidates have returned
C2_RetryBound ==
    \A u \in Units :
        /\ unit[u].call.nreq <= MAX_RETRIES
        /\ AllTransient(u) =>
              \/ unit[u].pc = "sleep" /\ unit[u].call.nreq < MAX_RETRIES
              \/ /\ unit[u].pc = "ret"
                 /\ unit[u].call.nreq = MAX_RETRIES
                 /\ ~unit[u].call.ok
        /\ unit[u].pc \notin {"queued", "done"} => Len(unit[u].hist) = unit[u].cand - 1

\* a call returns False after MAX_RETRIES transient failures
C2_Witness ==
    \E u \in Units :
        /\ unit[u].pc = "ret"
        /\ AllTransient(u)
        /\ unit[u].call.nreq = MAX_RETRIES

\* C3 as stated: a call whose every attempt failed transiently has slept
\* MAX_RETRIES times when it returns
C3_DelaysEqualRetries ==
    \A u \in Units :
        (unit[u].pc = "ret" /\ AllTransient(u)) => unit[u].call.nsleep = MAX_RETRIES

\* C3 amended: a call whose every attempt failed transiently has slept
\* MAX_RETRIES - 1 times when it returns after its MAX_RETRIES requests: one
\* delay between consecutive attempts and none after the last
C3_DelaysBetweenAttempts ==
    \A u \in Units :
        /\ (unit[u].pc = "ret" /\ AllTransient(u)) =>
              /\ unit[u].call.nreq = MAX_RETRIES
              /\ unit[u].call.nsleep = MAX_RETRIES - 1
        /\ (unit[u].pc = "sleep" /\ AllTransient(u)) =>
              unit[u].call.nsleep = unit[u].call.nreq - 1

\* a call returns after MAX_RETRIES transient failures and MAX_RETRIES - 1 delays
C3_Witness ==
    \E u \in Units :
        /\ unit[u].pc = "ret"
        /\ AllTransient(u)
        /\ unit[u].call.nsleep = MAX_RETRIES - 1

\* C4: an attempt answered 404 ends the call at once with False and without a
\* delay after it, whatever the attempt number, and the next step of the unit
\* goes to the next candidate (or reports failure when there is none) without
\* any further request for the candidate
C4_NotFoundNotRetried ==
    /\ [](\A u \in Units :
            unit[u].call.last = "404" =>
                /\ unit[u].pc = "ret"
                /\ ~unit[u].call.ok
                /\ unit[u].call.nsleep = unit[u].call.nreq - 1)
    /\ [][\A u \in Units :
            (unit[u].call.last = "404" /\ unit'[u] # unit[u]) =>
                /\ unit'[u].reqs = unit[u].reqs
                /\ \/ unit'[u].pc = "isfile" /\ unit'[u].cand = unit[u].cand + 1
                   \/ /\ unit'[u].pc = "done"
                      /\ ~unit'[u].success
                      /\ unit[u].cand = Len(candidates(u))]_vars

\* a 404 on the second attempt, after a transient failure and its delay
C4_Witness ==
    \E u \in Units :
        /\ unit[u].call.last = "404"
        /\ unit[u].call.nreq = 2
        /\ unit[u].call.nsleep = 1

\* C5: the station identifiers of a run being distinct, no two workers are ever
\* writing the same local path
C5_WritePartitioned ==
    \A u, v \in Units :
        (u # v /\ unit[u].pc = "write" /\ unit[v].pc = "write") =>
            Cur(u).path # Cur(v).path

\* C6: when download_file returns True, the file at the candidate's local path
\* exists and is not empty
C6_SuccessIsNonEmpty ==
    \A u \in Units :
        (unit[u].pc = "ret" /\ unit[u].call.ok) =>
            /\ Cur(u).path \in DOMAIN files
            /\ files[Cur(u).path] > 0

\* C7: download_file goes on to another attempt for the candidate only after a
\* 5xx answer or a transport exception
C7_RetryOnlyTransient ==
    \A u \in Units :
        unit[u].pc = "sleep" => unit[u].call.last \in {"5xx", "conn", "stream"}

\* C8: a unit whose first candidate was answered 404 and whose second was
\* answered 200 (one request each) reports (second candidate's path, True) and
\* has written exactly one file; and every unit that succeeds by a fetch
\* reports the path of the candidate the fetch was for, all candidates before
\* it having failed and none after it having been tried
C8_FirstSuccessStops ==
    \A u \in Units :
        /\ (Done(u) /\ unit[u].hist = <<"404", "ok">> /\ unit[u].reqs = 2) =>
              /\ unit[u].success
              /\ unit[u].path = candidates(u)[2].path
              /\ unit[u].wrote = {candidates(u)[2].path}
        /\ (Done(u) /\ ~dry_run /\ unit[u].success) =>
              /\ unit[u].hist # <<>>
              /\ unit[u].hist[Len(unit[u].hist)] \in {"ok", "present"}
              /\ unit[u].path = candidates(u)[Len(unit[u].hist)].path
        /\ \A i \in 1..Len(unit[u].hist) :
              unit[u].hist[i] \in {"ok", "present"} => (Done(u) /\ i = Len(unit[u].hist))

\* 404 on the first candidate, 200 on the second
C8_Witness ==
    \E u \in Units :
        Done(u) /\ unit[u].hist = <<"404", "ok">> /\ unit[u].reqs = 2

\* C9: the unit is reported satisfied by local presence exactly when the file
\* of the candidate it is at exists with a non-zero size at the size check;
\* it then returns (that candidate's path, True) and makes no request for
\* that candidate nor any later one; a missing or empty file sends the unit
\* to download_file
C9_LocalPresence ==
    [][\A u \in Units :
        /\ (unit[u].pc = "isfile" /\ unit'[u] # unit[u]) =>
              IF Cur(u).path \in DOMAIN files
              THEN unit'[u].pc = "getsize"
              ELSE unit'[u].pc = "request"
        /\ (unit[u].pc = "getsize" /\ unit'[u] # unit[u]) =>
              IF files[Cur(u).path] > 0
              THEN /\ unit'[u].pc = "done"
                   /\ unit'[u].success
                   /\ unit'[u].path = Cur(u).path
                   /\ unit'[u].reqs = unit[u].reqs
              ELSE unit'[u].pc = "request"
        /\ (Done(u) /\ unit'[u] # unit[u]) => unit'[u] = Queued]_vars

\* a unit satisfied by the file of its second candidate
C9_Witness ==
    \E u \in Units :
        /\ run = 2
        /\ Done(u)
        /\ unit[u].hist = <<"404", "present">>
        /\ unit[u].success

\* C10: a unit that is reported failed reports the first candidate's path, and
\* at that moment no non-empty file exists at that path
C10_ExhaustionPathAbsent ==
    [][\A u \in Units :
        (unit[u].pc = "ret" /\ unit'[u].pc = "done" /\ ~unit'[u].success) =>
            /\ unit'[u].path = candidates(u)[1].path
            /\ ~(/\ candidates(u)[1].path \in DOMAIN files'
                 /\ files'[candidates(u)[1].path] > 0)]_vars

----------------------------------------------------------------------------
(* Properties of the planning, the pool and the aggregation *)

\* the known window of a station: <<start, stop>>, each None or <<date>>
WindowOf(st) ==
    IF st \in DOMAIN station_periods THEN station_periods[st] ELSE <<None, None>>

\* max(requested start, window start), the requested start when the window
\* start is unknown
EffectiveStart(st) ==
    LET w == WindowOf(st)
    IN  IF w[1] = None THEN start_date
        ELSE IF w[1][1] >= start_date THEN w[1][1] ELSE start_date

\* min(requested end, window stop), the requested end when the window stop
\* is unknown
EffectiveEnd(st) ==
    LET w == WindowOf(st)
    IN  IF w[2] = None THEN end_date
        ELSE IF w[2][1] <= end_date THEN w[2][1] ELSE end_date

\* the work units of station st, in the order of tasks
TasksOf(st) == SelectSeq(tasks, LAMBDA t : t.st = st)

\* the days station st has a work unit for
DaysOf(st) == {tasks[i].dt : i \in {j \in 1..Len(tasks) : tasks[j].st = st}}

\* the units that have an outcome in results
Collected == {results[i].u : i \in 1..Len(results)}

\* C11: a station whose window and the requested range do not overlap has no
\* work unit, so nothing of it is submitted, and no outcome in results; the
\* summary counts the units of the other stations only
C11_NoOverlapSkipped ==
    /\ submitted <= Len(tasks)
    /\ \A k \in 1..Len(stations) :
          EffectiveStart(stations[k]) > EffectiveEnd(stations[k]) =>
              /\ \A i \in 1..Len(tasks) : tasks[i].st # stations[k]
              /\ \A i \in 1..Len(results) : results[i].st # stations[k]
    /\ summary # <<>> =>
          /\ summary[1].n_success + summary[1].n_fail = Len(results)
          /\ \A i \in 1..Len(results) :
                \E k \in 1..Len(stations) :
                    /\ results[i].st = stations[k]
                    /\ EffectiveStart(stations[k]) <= EffectiveEnd(stations[k])

\* a batch has returned: a station without overlap was skipped, another one
\* has its outcome
C11_Witness ==
    /\ main = "returned"
    /\ results # <<>>
    /\ \E k \in 1..Len(stations) :
          EffectiveStart(stations[k]) > EffectiveEnd(stations[k])

\* C12: the work units of a station start at max(requested start, window
\* start) and end at min(requested end, window stop), an unknown bound (None,
\* or the station absent from station_periods) standing for the requested
\* one; a station without window data gets exactly the requested range
C12_OpenEndedBounds ==
    main = "planned" =>
        \A k \in 1..Len(stations) :
            LET st == stations[k]
                lo == EffectiveStart(st)
                hi == EffectiveEnd(st)
            IN  /\ lo <= hi =>
                      /\ lo \in DaysOf(st)
                      /\ hi \in DaysOf(st)
                      /\ \A d \in DaysOf(st) : lo <= d /\ d <= hi
                /\ WindowOf(st)[1] = None =>
                      \A d \in DaysOf(st) : d >= start_date
                /\ (WindowOf(st)[1] = None /\ DaysOf(st) # {}) =>
                      start_date \in DaysOf(st)
                /\ (WindowOf(st)[2] = None /\ DaysOf(st) # {}) =>
                      end_date \in DaysOf(st)
                /\ WindowOf(st) = <<None, None>> =>
                      DaysOf(st) = start_date..end_date

\* one station with an unknown start and a stop inside the requested range,
\* or listed without being a key of station_periods and given the two days
\* of the requested range
C12_Witness ==
    /\ main = "planned"
    /\ \E k \in 1..Len(stations) :
          \/ /\ stations[k] \in DOMAIN station_periods
             /\ WindowOf(stations[k])[1] = None
             /\ WindowOf(stations[k])[2] # None
             /\ DaysOf(stations[k]) = {start_date}
             /\ end_date > start_date
          \/ /\ stations[k] \notin DOMAIN station_periods
             /\ end_date = start_date + 1
             /\ DaysOf(stations[k]) = {start_date, end_date}

\* C13: the work units of a station are one per day from its effective start
\* to its effective end, both included, each day once and in order, so
\* (effective end - effective start) + 1 of them, and none when the two do not
\* overlap; and every work unit belongs to a listed station
C13_Expansion ==
    main = "planned" =>
        /\ \A k \in 1..Len(stations) :
              LET st == stations[k]
                  lo == EffectiveStart(st)
                  hi == EffectiveEnd(st)
                  ts == TasksOf(st)
              IN  IF lo <= hi
                  THEN /\ Len(ts) = (hi - lo) + 1
                       /\ \A n \in 1..Len(ts) : ts[n].dt = lo + (n - 1)
                  ELSE ts = <<>>
        /\ \A i \in 1..Len(tasks) :
              \E k \in 1..Len(stations) : tasks[i].st = stations[k]

\* a window of three days inside a wider requested range gives three units
C13_Witness ==
    /\ main = "planned"
    /\ \E k \in 1..Len(stations) :
          LET w == WindowOf(stations[k])
          IN  /\ w[1] # None
              /\ w[2] # None
              /\ w[2][1] = w[1][1] + 2
              /\ start_date < w[1][1]
              /\ w[2][1] <= end_date
              /\ Len(TasksOf(stations[k])) = 3

\* the last element of a path or url
BaseName(path) == path[Len(path)]

\* C20: the candidates of a (station, date) are one or two (url, local path)
\* pairs without duplicates: first the one named after the lowercase
\* identifier, then the one named after the uppercase identifier, which is
\* left out when the two names are the same; url and path of a candidate
\* carry the same file name, and a second call with the same arguments gives
\* the same list
C20_CandidateGeneration ==
    /\ [](cands # <<>> =>
            LET c == cands[1]
                low == FileName(Lower(c.station), c.current_date)
                up == FileName(Upper(c.station), c.current_date)
            IN  /\ Len(c.ret) >= 1
                /\ \A i, j \in 1..Len(c.ret) : i # j => c.ret[i] # c.ret[j]
                /\ \A i \in 1..Len(c.ret) :
                      BaseName(c.ret[i].url) = BaseName(c.ret[i].path)
                /\ BaseName(c.ret[1].path) = low
                /\ IF Lower(c.station) = Upper(c.station)
                   THEN Len(c.ret) = 1
                   ELSE Len(c.ret) = 2 /\ BaseName(c.ret[2].path) = up)
    /\ [][(cands # <<>> /\ cands' # <<>>
             /\ cands'[1].station = cands[1].station
             /\ cands'[1].current_date = cands[1].current_date)
          => cands'[1].ret = cands[1].ret]_vars

\* an identifier without letters: the two patterns are one candidate
C20_Witness ==
    /\ cands # <<>>
    /\ Lower(cands[1].station) = Upper(cands[1].station)
    /\ Len(cands[1].ret) = 1

\* the outcomes of unit u in results
OutcomesOf(u) == {i \in 1..Len(results) : results[i].u = u}

\* the outcomes of results whose success flag is False
Failures == {i \in 1..Len(results) : ~results[i].success}

\* C14: no work unit ever has two outcomes and every outcome is that of a
\* generated work unit; when download_rinex_batch returns, every work unit
\* has exactly one outcome, len(results) = total, n_success + n_fail = total
\* and n_fail is the number of outcomes whose success flag is False
C14_ExactlyOnce ==
    /\ \A u \in Units : Cardinality(OutcomesOf(u)) <= 1
    /\ \A i \in 1..Len(results) :
          /\ results[i].u \in Units
          /\ results[i].st = tasks[results[i].u].st
          /\ results[i].dt = tasks[results[i].u].dt
    /\ main = "returned" =>
          /\ \A u \in Units : Cardinality(OutcomesOf(u)) = 1
          /\ Len(results) = Len(tasks)
          /\ summary # <<>>
          /\ summary[1].total = Len(tasks)
          /\ summary[1].n_success + summary[1].n_fail = summary[1].total
          /\ summary[1].n_fail = Cardinality(Failures)

\* a batch of two units has returned, one outcome a success and one a failure
C14_Witness ==
    /\ main = "returned"
    /\ Len(results) = 2
    /\ Cardinality(Failures) = 1

\* C15: the batch is never aborted by the exception of a unit: the unit that
\* raised gets the outcome (None, False), every other outcome is the pair its
\* unit returned, and at the return every unit, the one that raised
\* included, has exactly one outcome
C15_FailureIsolation ==
    /\ main \in {"submit", "collect", "returned"}
    /\ \A i \in 1..Len(results) :
          LET u == results[i].u
          IN  IF unit[u].pc = "raised"
              THEN results[i].path = None /\ ~results[i].success
              ELSE /\ unit[u].pc = "done"
                   /\ results[i].path = unit[u].path
                   /\ results[i].success = unit[u].success
    /\ main = "returned" =>
          \A u \in Units :
              /\ unit[u].pc \in {"done", "raised"}
              /\ Cardinality(OutcomesOf(u)) = 1

\* the batch has returned although one unit raised, and another unit has its
\* success recorded
C15_Witness ==
    /\ main = "returned"
    /\ \E u, v \in Units :
          /\ unit[u].pc = "raised"
          /\ unit[v].pc = "done"
          /\ unit[v].success
          /\ \E i \in OutcomesOf(v) : results[i].success

\* C16: the units being resolved at one time, and so the units in a request
\* and the units in a retry delay, are never more than max_workers
C16_BoundedConcurrency ==
    /\ Cardinality(Running) <= max_workers
    /\ Cardinality({u \in Units : unit[u].pc \in {"request", "sleep"}}) <= max_workers

\* every worker is busy, one in a retry delay, and a unit waits in the queue
C16_Witness ==
    /\ Cardinality(Running) = max_workers
    /\ \E u \in Units : unit[u].pc = "sleep"
    /\ \E u \in Units : unit[u].pc = "queued"

\* C17: every unit is eventually submitted, whatever the other units do; and
\* with two workers or more, while one unit (`stuck`) hangs in a fetch or in
\* a retry delay, every other unit eventually has its outcome in results
C17_NoHeadOfLineBlocking ==
    /\ <>(submitted = Len(tasks))
    /\ \A u \in 1..MaxTasks :
          <>((max_workers >= 2 /\ u \in Units /\ u # stuck) => u \in Collected)

\* the unit that hangs is still in its fetch or its delay, and a unit
\* submitted after it has its outcome in results
C17_Witness ==
    /\ max_workers >= 2
    /\ stuck \in Units
    /\ unit[stuck].pc \in {"request", "sleep"}
    /\ \E u \in Collected : u > stuck

\* C18: the outcomes are appended to results in the order in which the units
\* finished: the outcome appended is that of the unit that finished first
\* among those not yet in results
C18_CompletionOrder ==
    [][results' # results =>
          results'[Len(results')].u =
              IF early # <<>> THEN Head(early) ELSE Head(waiter)]_vars

\* the sum of the reports of the units 1..n
RECURSIVE ReportsUpTo(_)
ReportsUpTo(n) == IF n = 0 THEN 0 ELSE ReportsUpTo(n - 1) + unit[n].reports

\* C19: in a dry run no unit makes a request or opens a file, no file and no
\* directory is created or changed, whatever is on the disk; a resolved unit
\* has logged one report per candidate and returns (first candidate's path,
\* True), which is the outcome recorded for it; when the batch has returned,
\* N units of k candidates each have logged N * k reports
C19_DryRun ==
    /\ [](dry_run =>
            /\ \A u \in Units :
                  /\ unit[u].pc \in {"queued", "done"}
                  /\ unit[u].reqs = 0
                  /\ unit[u].wrote = {}
                  /\ unit[u].pc = "done" =>
                        /\ unit[u].reports = Len(candidates(u))
                        /\ unit[u].path = candidates(u)[1].path
                        /\ unit[u].success
            /\ \A i \in 1..Len(results) :
                  /\ results[i].path = candidates(results[i].u)[1].path
                  /\ results[i].success
            /\ \A k \in 1..2 :
                  (main = "returned" /\ \A u \in Units : Len(candidates(u)) = k)
                      => ReportsUpTo(Len(tasks)) = Len(tasks) * k)
    /\ [][dry_run => (files' = files /\ dirs' = dirs)]_vars

\* a dry run of two units of two candidates each has returned with four
\* reports, a file of the first unit being on the disk
C19_Witness ==
    /\ dry_run
    /\ main = "returned"
    /\ Len(tasks) = 2
    /\ \A u \in Units : Len(candidates(u)) = 2
    /\ ReportsUpTo(Len(tasks)) = 4
    /\ candidates(1)[1].path \in DOMAIN files
    /\ Len(results) = 2

----------------------------------------------------------------------------
(* Properties of the error handling, the candidates and the disk *)

\* C21: an attempt answered with a status that is neither 200, 404 nor 5xx
\* (301, 403, 600) ends the call at once with False, whatever the attempt
\* number, without a delay after it; the step that receives the answer
\* changes neither a file nor a directory, and the next step of the unit goes
\* to the next candidate (or reports failure when there is none) without any
\* further request for the candidate
C21_ClientErrorDefinitive ==
    /\ [](\A u \in Units :
            unit[u].call.last = "other" =>
                /\ unit[u].pc = "ret"
                /\ ~unit[u].call.ok
                /\ unit[u].call.nsleep = unit[u].call.nreq - 1)
    /\ [][\A u \in Units :
            /\ (unit[u].call.last # "other" /\ unit'[u].call.last = "other") =>
                  /\ unit[u].pc = "request"
                  /\ unit'[u].call.nreq = unit[u].call.nreq + 1
                  /\ files' = files
                  /\ dirs' = dirs
            /\ (unit[u].call.last = "other" /\ unit'[u] # unit[u]) =>
                  /\ unit'[u].reqs = unit[u].reqs
                  /\ \/ unit'[u].pc = "isfile" /\ unit'[u].cand = unit[u].cand + 1
                     \/ /\ unit'[u].pc = "done"
                        /\ ~unit'[u].success
                        /\ unit[u].cand = Len(candidates(u))]_vars

\* a status of that kind on the second attempt, after a transient failure
\* and its delay, nothing being on the disk
C21_Witness ==
    /\ \E u \in Units :
          /\ unit[u].call.last = "other"
          /\ unit[u].call.nreq = 2
          /\ unit[u].call.nsleep = 1
    /\ DOMAIN files = {}
    /\ dirs = {}

\* how a download_file call that returned False can have ended: NotFound,
\* another status that is not retried, or the failure of its last attempt
Failed == {"404", "other", "5xx", "conn", "stream", "local"}

\* no work unit exists, nothing was submitted or recorded, and the disk is
\* as empty as it was
NothingDone ==
    /\ tasks = <<>>
    /\ unit = <<>>
    /\ submitted = 0
    /\ results = <<>>
    /\ DOMAIN files = {}
    /\ dirs = {}

\* the metadata query answers, and no station is left: it has no row, or the
\* stations file names none of its stations
NoEntity ==
    /\ env.meta_ok
    /\ \/ env.metadata = <<>>
       \/ /\ env.file.given
          /\ env.file.isfile
          /\ Filtered(env.file.ids, parse_session_periods(env.metadata)) = <<>>

\* C22: with the end date before the start date the program exits at its
\* first check; with no station left it exits before download_rinex_batch
\* is called; with the token unset, dry run or not, it gets no further than
\* the first statement of download_rinex_batch, where it ends with the
\* error; in the three cases no work unit is ever built or submitted, no
\* request is made and the disk is untouched, and the program is never
\* left waiting before its exit
C22_FatalBeforeWork ==
    /\ end_date < start_date =>
          (main \in {"main", "exit"} /\ NothingDone)
    /\ NoEntity =>
          (main \in {"main", "query", "select", "exit"} /\ NothingDone)
    /\ ~env.token =>
          /\ main \in {"main", "query", "select", "batch", "exit", "error"}
          /\ NothingDone
          /\ (end_date >= start_date /\ ~NoEntity /\ env.meta_ok
                 /\ (env.file.given => env.file.isfile)) => main # "exit"
    /\ (main \in {"main", "query", "select", "batch"}
          /\ (end_date < start_date \/ NoEntity \/ ~env.token)) =>
          ENABLED <<ParseArgs \/ QueryMetadata \/ DetermineStations
                      \/ GetBearerToken>>_vars

\* a dry run with the token unset has ended with the error, its stations
\* chosen and nothing done
C22_Witness ==
    /\ main = "error"
    /\ ~env.token
    /\ dry_run
    /\ stations # <<>>
    /\ NothingDone

\* C23: the unit is at candidate i+1 only when the calls for the candidates
\* 1..i have all returned False; it moves from candidate i to candidate i+1,
\* and to nothing else, when the call for candidate i returns False after a
\* 404, after a status that is not retried or after MAX_RETRIES requests, and
\* it does so whenever a candidate is left, however the call failed; a unit
\* that download_for_date_station reports failed has had every candidate end
\* without success
C23_CandidateOrder ==
    /\ [](\A u \in Units :
            /\ unit[u].cand \in 1..Len(candidates(u))
            /\ unit[u].pc \notin {"queued", "done"} =>
                  /\ Len(unit[u].hist) = unit[u].cand - 1
                  /\ \A i \in 1..Len(unit[u].hist) : unit[u].hist[i] \in Failed
            /\ (unit[u].pc = "ret" /\ ~unit[u].call.ok) =>
                  \/ unit[u].call.last \in {"404", "other"}
                  \/ /\ unit[u].call.last \in {"5xx", "conn", "stream", "local"}
                     /\ unit[u].call.nreq = MAX_RETRIES
            /\ (Done(u) /\ ~dry_run /\ ~unit[u].success) =>
                  /\ Len(unit[u].hist) = Len(candidates(u))
                  /\ \A i \in 1..Len(unit[u].hist) : unit[u].hist[i] \in Failed)
    /\ [][\A u \in Units :
            /\ (unit'[u].cand # unit[u].cand /\ unit'[u] # Queued) =>
                  /\ unit[u].pc = "ret"
                  /\ ~unit[u].call.ok
                  /\ unit'[u].cand = unit[u].cand + 1
                  /\ unit'[u].pc = "isfile"
                  /\ unit'[u].reqs = unit[u].reqs
            /\ (unit[u].pc = "ret" /\ ~unit[u].call.ok /\ unit'[u] # unit[u]
                   /\ unit[u].cand < Len(candidates(u))) =>
                  /\ unit'[u].pc = "isfile"
                  /\ unit'[u].cand = unit[u].cand + 1]_vars

\* the first candidate has used up its retries on transient failures and the
\* unit is in a request for the second one
C23_Witness ==
    \E u \in Units :
        /\ unit[u].cand = 2
        /\ unit[u].hist \in {<<"5xx">>, <<"conn">>, <<"stream">>}
        /\ unit[u].reqs = MAX_RETRIES
        /\ unit[u].pc = "request"

\* the environment has injected no failure yet (runs of several units)
NoFaultYet == budget # <<>> /\ budget = <<MaxFaults>>

\* C24: a worker that has seen the directory missing and calls os.makedirs
\* goes on to open its file unless the environment makes the call fail (a
\* failure counted in the budget of a run of several units),
\* whether or not another worker has created the directory in between, and
\* the directory then exists with its parents; every file is in an existing
\* directory; as long as the environment has injected no failure (every
\* answer so far was a 200), no attempt has failed and no unit has failed
C24_MakeDirsRace ==
    /\ [](/\ \A d \in dirs : WithParents(d) \subseteq dirs
          /\ \A p \in DOMAIN files : DirName(p) \in dirs
          /\ NoFaultYet =>
                \A u \in Units :
                    /\ unit[u].call.last \notin Failed
                    /\ unit[u].pc # "sleep"
                    /\ \A i \in 1..Len(unit[u].hist) :
                          unit[u].hist[i] \in {"ok", "present"}
                    /\ Done(u) => unit[u].success)
    /\ [][\A u \in Units :
            (unit[u].pc = "makedirs" /\ unit'[u] # unit[u]
               /\ budget # <<>> /\ budget' = budget) =>
                /\ unit'[u].pc = "open"
                /\ DirName(Cur(u).path) \in dirs'
                /\ dirs \subseteq dirs']_vars

\* two workers have seen the same directory missing; one has created it and
\* opened its file, the other is about to call os.makedirs
C24_Witness ==
    \E u, v \in Units :
        /\ u # v
        /\ NoFaultYet
        /\ unit[u].pc = "makedirs"
        /\ unit[v].pc \in {"write", "ret"}
        /\ DirName(Cur(u).path) = DirName(Cur(v).path)
        /\ DirName(Cur(u).path) \in dirs
        /\ Cur(u).path # Cur(v).path

\* the paths at which the two disks differ: created, removed, or changed
Touched(f, g) ==
    {p \in DOMAIN f \cup DOMAIN g :
        IF p \in DOMAIN f /\ p \in DOMAIN g THEN f[p] # g[p] ELSE TRUE}

\* C26: the step in which a request is answered or raises, whatever the
\* status and the exception, changes no file and no directory, and neither
\* does a retry delay or the return of a call; a step that changes the disk
\* is a step of a unit after the 200 of its current attempt (in
\* ensure_directory, at open or writing the body), it changes no file but
\* the one at the candidate's local path and creates no directory but that
\* file's directory and its parents; nothing is ever removed
C26_FrameOfFailedAttempt ==
    /\ [](\A u \in Units :
            unit[u].pc \in {"exists", "makedirs", "open", "write"} =>
                unit[u].call.last = "none")
    /\ [][/\ \A u \in Units :
              (unit'[u] # unit[u]
                 /\ unit[u].pc \in {"request", "sleep", "ret", "isfile", "getsize"}) =>
                  /\ files' = files
                  /\ dirs' = dirs
          /\ (files' # files \/ dirs' # dirs) =>
                 \E u \in Units :
                     /\ unit[u].pc \in {"makedirs", "open", "write"}
                     /\ Touched(files, files') \subseteq {Cur(u).path}
                     /\ DOMAIN files \subseteq DOMAIN files'
                     /\ dirs \subseteq dirs'
                     /\ dirs' \ dirs \subseteq WithParents(DirName(Cur(u).path))]_vars

\* a call has ended with a 404, with another status or with a transport
\* error before the answer, and the disk is as empty as it was
C26_Witness ==
    /\ run = 1
    /\ DOMAIN files = {}
    /\ dirs = {}
    /\ \E u \in Units :
          /\ unit[u].cand = 2
          /\ unit[u].hist \in {<<"404">>, <<"other">>, <<"5xx">>, <<"conn">>}

\* C25: a unit never makes more requests than MAX_RETRIES for each of its
\* candidates, six at most; the batch is never aborted; it returns only with
\* every unit resolved and its outcome in results; and, every request
\* returning or raising, it does return
C25_Termination ==
    /\ [](/\ \A u \in Units :
                /\ unit[u].reqs <= Len(candidates(u)) * MAX_RETRIES
                /\ unit[u].reqs <= 6
          /\ main \in {"submit", "collect", "returned"}
          /\ main = "returned" =>
                \A u \in Units :
                    /\ unit[u].pc \in {"done", "raised"}
                    /\ u \in Collected)
    /\ <>(main = "returned")

\* the batch has returned with a unit that made six requests, three for each
\* of its two candidates, and failed
C25_Witness ==
    /\ main = "returned"
    /\ \E u \in Units :
          /\ unit[u].reqs = 6
          /\ Len(unit[u].hist) = 2
          /\ ~unit[u].success
          /\ \E i \in OutcomesOf(u) : ~results[i].success

\* no other unit of the run has a candidate at a local path of unit u
OwnPaths(u) ==
    \A v \in Units \ {u} :
        \A i \in 1..Len(candidates(u)), j \in 1..Len(candidates(v)) :
            candidates(u)[i].path # candidates(v)[j].path

\* C27: when download_file returns False for a candidate, no non-empty file
\* is at the candidate's local path; and in the re-run a unit that the first
\* run reported failed is not reported successful by the test on the
\* existing file.  Stated for the units that share no local path with
\* another unit, so that the file can only come from the unit's own fetches
C27_NoResumableArtifact ==
    \A u \in Units :
        OwnPaths(u) =>
            /\ (unit[u].pc = "ret" /\ ~unit[u].call.ok) =>
                  ~(IsFile(Cur(u).path) /\ files[Cur(u).path] > 0)
            /\ (run = 2 /\ ~dry_run /\ ~prev[u].success /\ Done(u) /\ unit[u].reqs = 0) =>
                  ~unit[u].success

====
